---- MODULE Spec2Model ----
(***************************************************************************)
(* A model of two parts of GPflow:                                         *)
(*   - gpflow/core/parentable.py : the Parentable naming tree, and          *)
(*   - gpflow/svgp.py            : the SVGP model (construction, the        *)
(*     variational bound, the linear-weights posterior).                    *)
(* Python strings are sequences of one-character strings, so that split,    *)
(* isdigit and format are computed and not assumed.                         *)
(***************************************************************************)
EXTENDS Integers, Sequences, FiniteSets, TLC

VARIABLES nodes, index, handed, last, svgp, out

vars == <<nodes, index, handed, last, svgp, out>>

(***************************************************************************)
(* Bounds of the model.                                                    *)
(***************************************************************************)
\* node slots; nodes are created in the order of their slot
MaxNodes == 3
\* reads of the class counter that the model follows
MaxIndex == 3

\* Python's None where a string may stand: no string, as every character of
\* a string is one character long
None == <<"<None>">>

\* Python's None where a node may stand (self._parent = None)
NoParent == 0

(***************************************************************************)
(* Python string helpers.                                                  *)
(***************************************************************************)
Digits == <<"0", "1", "2", "3", "4", "5", "6", "7", "8", "9">>

DigitChars == {Digits[i] : i \in 1..10}

\* str.isdigit(): non-empty and every character a digit
IsDigit(s) == Len(s) > 0 /\ \A i \in 1..Len(s) : s[i] \in DigitChars

\* '{index}'.format(index=n) for n >= 0: the decimal numeral
RECURSIVE FormatInt(_)
FormatInt(n) ==
  IF n < 10 THEN <<Digits[n + 1]>>
  ELSE FormatInt(n \div 10) \o <<Digits[(n % 10) + 1]>>

\* position of the first '/' of s, 0 when there is none
FirstSlash(s) ==
  IF \E i \in 1..Len(s) : s[i] = "/"
  THEN CHOOSE i \in 1..Len(s) : s[i] = "/" /\ \A j \in 1..(i - 1) : s[j] # "/"
  ELSE 0

\* s.split(sep='/', maxsplit=1)
Split1(s) ==
  LET k == FirstSlash(s) IN
  IF k = 0 THEN <<s>>
  ELSE <<SubSeq(s, 1, k - 1), SubSeq(s, k + 1, Len(s))>>

\* misc.tensor_name(a, b): the parts joined by '/'
tensor_name(a, b) == a \o <<"/">> \o b

\* truth value of a name argument: None and '' are falsy
Truthy(nm) == nm # None /\ nm # <<>>

(***************************************************************************)
(* Inputs of the naming tree.                                              *)
(***************************************************************************)
NodeIds == 1..MaxNodes

\* __class__.__name__ of two subclasses of Parentable
ClassNames == {<<"A">>, <<"B">>}

\* explicit names handed to the constructor and to set_name
ExplicitNames == {<<"f">>, <<"3", "/", "f">>}

NameArgs == ExplicitNames \cup {None, <<>>}

\* the result of a property whose recursion does not end
RecursionError == <<"<RecursionError>">>

(***************************************************************************)
(* Parentable                                                              *)
(***************************************************************************)
\* a node slot that no constructor has filled yet
Absent == [exists |-> FALSE, cls |-> <<>>, _name |-> <<>>, _parent |-> NoParent]

Exists(n) == nodes[n].exists

\* Parentable._read_index: the value returned
ReadIndexValue(idx) == idx

\* a faulty variant of ReadIndexNext: the counter is read and not incremented
ReadIndexNextStuck(idx) == idx

\* Parentable._read_index: the class counter afterwards
ReadIndexNext(idx) == idx + 1

\* Parentable._define_name: the name returned
DefinedName(cls, nm, idx) ==
  IF Truthy(nm) THEN nm
  ELSE FormatInt(ReadIndexValue(idx)) \o <<"/">> \o cls

\* Parentable._define_name: the class counter afterwards
DefinedIndex(nm, idx) == IF Truthy(nm) THEN idx ELSE ReadIndexNext(idx)

\* Parentable._define_name: the indices read by the call
DefinedHanded(nm, idx) == IF Truthy(nm) THEN <<>> ELSE <<ReadIndexValue(idx)>>

\* a faulty variant of NameOf: the prefix is never stripped
NameOfUnstripped(s) == s

\* Parentable.name, as a function of _name
NameOf(s) ==
  LET name == Split1(s) IN
  IF Len(name) > 1 /\ IsDigit(name[1]) THEN name[2] ELSE s

name(n) == NameOf(nodes[n]._name)

\* Parentable.hidden_name
hidden_name(n) == nodes[n]._name

\* Parentable.parent
parent(n) == IF nodes[n]._parent = NoParent THEN n ELSE nodes[n]._parent

\* Parentable.root; fuel counts the calls left before the recursion limit
\* the set of the values returned: empty when the recursion does not end
RECURSIVE RootF(_, _)
RootF(n, fuel) ==
  IF nodes[n]._parent = NoParent THEN {n}
  ELSE IF fuel = 0 THEN {}
  ELSE RootF(nodes[n]._parent, fuel - 1)

root(n) == RootF(n, MaxNodes)

\* Parentable.full_name
RECURSIVE FullNameF(_, _)
FullNameF(n, fuel) ==
  IF nodes[n]._parent = NoParent THEN name(n)
  ELSE IF fuel = 0 THEN RecursionError
  ELSE LET up == FullNameF(nodes[n]._parent, fuel - 1) IN
       IF up = RecursionError THEN RecursionError
       ELSE tensor_name(up, name(n))

full_name(n) == FullNameF(n, MaxNodes)

\* Parentable.hidden_full_name
RECURSIVE HiddenFullNameF(_, _)
HiddenFullNameF(n, fuel) ==
  IF nodes[n]._parent = NoParent THEN nodes[n]._name
  ELSE IF fuel = 0 THEN RecursionError
  ELSE LET up == HiddenFullNameF(nodes[n]._parent, fuel - 1) IN
       IF up = RecursionError THEN RecursionError
       ELSE tensor_name(up, name(n))

hidden_full_name(n) == HiddenFullNameF(n, MaxNodes)

\* the last call that went through _define_name or _reset_name, with the
\* counter it started from and, for _reset_name, the name it started from
Call(op, n, arg) ==
  [op |-> op, node |-> n, arg |-> arg, index0 |-> index,
   name0 |-> IF op = "_reset_name" THEN nodes[n]._name ELSE <<>>]

NoCall == [op |-> "none", node |-> 0, arg |-> None, index0 |-> 0, name0 |-> <<>>]

\* Parentable.__init__(name) on an object of class cls
New(n, cls, nm) ==
  /\ ~Exists(n)
  /\ \A k \in 1..(n - 1) : Exists(k)
  /\ Truthy(nm) \/ index < MaxIndex
  /\ nodes' = [nodes EXCEPT ![n] =
       [exists |-> TRUE, cls |-> cls, _name |-> DefinedName(cls, nm, index),
        _parent |-> NoParent]]
  /\ index' = DefinedIndex(nm, index)
  /\ handed' = handed \o DefinedHanded(nm, index)
  /\ last' = Call("__init__", n, nm)
  /\ UNCHANGED <<svgp, out>>

\* Parentable.set_name(name)
SetName(n, nm) ==
  /\ Exists(n)
  /\ Truthy(nm) \/ index < MaxIndex
  /\ nodes' = [nodes EXCEPT ![n]._name = DefinedName(nodes[n].cls, nm, index)]
  /\ index' = DefinedIndex(nm, index)
  /\ handed' = handed \o DefinedHanded(nm, index)
  /\ last' = Call("set_name", n, nm)
  /\ UNCHANGED <<svgp, out>>

\* Parentable.set_parent(parent)
SetParent(n, p) ==
  /\ Exists(n)
  /\ p = NoParent \/ (p \in NodeIds /\ Exists(p))
  /\ nodes' = [nodes EXCEPT ![n]._parent = p]
  /\ UNCHANGED <<index, handed, last, svgp, out>>

\* a faulty variant of ResetCondition: the name is reset whatever it is
ResetConditionAlways(n) == TRUE

\* Parentable._reset_name: the test that guards the new name
ResetCondition(n) == hidden_name(n) # name(n)

\* Parentable._reset_name()
ResetName(n) ==
  /\ Exists(n)
  /\ index < MaxIndex
  /\ IF ResetCondition(n)
     THEN /\ nodes' = [nodes EXCEPT ![n]._name = DefinedName(nodes[n].cls, None, index)]
          /\ index' = DefinedIndex(None, index)
          /\ handed' = handed \o DefinedHanded(None, index)
     ELSE UNCHANGED <<nodes, index, handed>>
  /\ last' = Call("_reset_name", n, None)
  /\ UNCHANGED <<svgp, out>>

(***************************************************************************)
(* SVGP                                                                    *)
(* Arrays are records of a shape and the entries; only what the code reads *)
(* of the data (its shape) is kept.  Numbers that the code holds as floats *)
(* are integers counting multiples of the jitter level, and quotients are  *)
(* exact fractions.                                                        *)
(***************************************************************************)
\* rows of X and of Z that the model follows
MaxRows == 2
\* columns of X, of Y and of Z that the model follows
MaxCols == 2
\* the largest num_latent handed to the constructor
MaxLatent == 2

\* settings.numerics.jitter_level, the unit of the model's numbers
jitter_level == 1

\* the variance of the kernels, in units of the jitter level
KernelVariance == 1000000

\* an optional argument: {} is None, {v} is the value v
Opt(S) == {{}} \cup {{v} : v \in S}

TheValue(o) == CHOOSE v \in o : TRUE

\* Python's `o or d` for an optional number: None and 0 are falsy
OrElse(o, d) == IF o = {} \/ o = {0} THEN d ELSE TheValue(o)

\* num_latent or Y.shape[1]
NumLatentOf(num_latent, Yshape) == OrElse(num_latent, Yshape[2])

\* kernels: the covariance they compute and whether they have a feature map
Kernels == {[kind |-> k, has_feature_map |-> b] : k \in {"white", "constant"}, b \in BOOLEAN}

\* np.zeros((r, c))
Zeros(r, c) == [shape |-> <<r, c>>, at |-> [ix \in (1..r) \X (1..c) |-> 0]]

\* np.ones((r, c))
Ones(r, c) == [shape |-> <<r, c>>, at |-> [ix \in (1..r) \X (1..c) |-> 1]]

\* np.eye(n), entry (i, j)
EyeAt(i, j) == IF i = j THEN 1 ELSE 0

\* np.array([np.eye(m) for _ in range(l)]): l matrices of m x m
StackedEyes(l, m) ==
  [shape |-> <<l, m, m>>,
   at |-> [ix \in (1..l) \X (1..m) \X (1..m) |-> EyeAt(ix[2], ix[3])]]

\* ndarray.swapaxes(0, 2) of a three-dimensional array
SwapAxes02(a) ==
  [shape |-> <<a.shape[3], a.shape[2], a.shape[1]>>,
   at |-> [ix \in (1..a.shape[3]) \X (1..a.shape[2]) \X (1..a.shape[1]) |->
             a.at[<<ix[3], ix[2], ix[1]>>]]]

\* MinibatchData(data, minibatch_size, rng): the shape of the data and the
\* number of rows of each batch it yields
MinibatchData(shape, minibatch_size) == [shape |-> shape, batch |-> minibatch_size]

\* self.num_data = X.shape[0]
NumDataOf(Xshape, minibatch_size) == Xshape[1]

\* the initial q_sqrt
InitialQSqrt(q_diag, num_inducing, num_latent) ==
  IF q_diag THEN Ones(num_inducing, num_latent)
  ELSE SwapAxes02(StackedEyes(num_latent, num_inducing))

\* SVGP.__init__: the object constructed; `given` keeps the two optional
\* arguments of the call as they were handed in
Constructed(Xshape, Yshape, kern, Zshape, num_latent, q_diag, whiten, minibatch_size) ==
  LET mbs == IF minibatch_size = {} THEN Xshape[1] ELSE TheValue(minibatch_size)
      L == NumLatentOf(num_latent, Yshape)
      M == Zshape[1]
  IN [built |-> TRUE,
      num_data |-> NumDataOf(Xshape, mbs),
      X |-> MinibatchData(Xshape, mbs),
      Y |-> MinibatchData(Yshape, mbs),
      kern |-> kern,
      q_diag |-> q_diag,
      whiten |-> whiten,
      Z |-> [shape |-> Zshape],
      num_latent |-> L,
      num_inducing |-> M,
      q_mu |-> Zeros(M, L),
      q_sqrt |-> InitialQSqrt(q_diag, M, L),
      given |-> [num_latent |-> num_latent, minibatch_size |-> minibatch_size]]

NoModel == [built |-> FALSE]

NoOut == [op |-> "none"]

\* SVGP.__init__(X, Y, kern, likelihood, Z, ...)
Construct(Xshape, Yshape, kern, Zshape, num_latent, q_diag, whiten, minibatch_size) ==
  /\ ~svgp.built
  /\ IF minibatch_size = {} THEN TRUE ELSE TheValue(minibatch_size) <= Xshape[1]
  /\ svgp' = Constructed(Xshape, Yshape, kern, Zshape, num_latent, q_diag, whiten,
                         minibatch_size)
  /\ out' = [op |-> "__init__"]
  /\ UNCHANGED <<nodes, index, handed, last>>

\* kern.K(Z): the covariance of the M inducing points
KernK(kern, M) ==
  [shape |-> <<M, M>>,
   at |-> [ix \in (1..M) \X (1..M) |->
             IF kern.kind = "white" THEN KernelVariance * EyeAt(ix[1], ix[2])
             ELSE KernelVariance]]

\* tf.eye(n) * c
ScaledEye(n, c) ==
  [shape |-> <<n, n>>, at |-> [ix \in (1..n) \X (1..n) |-> EyeAt(ix[1], ix[2]) * c]]

\* a + b of two arrays of one shape
ArrayAdd(a, b) ==
  [shape |-> a.shape, at |-> [ix \in DOMAIN a.at |-> a.at[ix] + b.at[ix]]]

\* a faulty variant of PriorK: the jitter is left out
PriorKNoJitter(m) == KernK(m.kern, m.num_inducing)

\* SVGP.build_prior_KL: K = kern.K(Z) + eye * jitter
PriorK(m) ==
  ArrayAdd(KernK(m.kern, m.num_inducing), ScaledEye(m.num_inducing, jitter_level))

\* no prior covariance is handed on
NoK == [shape |-> <<>>, at |-> <<>>]

\* SVGP.build_prior_KL: the function of kullback_leiblers called and its arguments
PriorKLCall(m) ==
  IF m.whiten
  THEN IF m.q_diag
       THEN [fn |-> "gauss_kl_white_diag", q_mu |-> m.q_mu, q_sqrt |-> m.q_sqrt, K |-> NoK]
       ELSE [fn |-> "gauss_kl_white", q_mu |-> m.q_mu, q_sqrt |-> m.q_sqrt, K |-> NoK]
  ELSE IF m.q_diag
       THEN [fn |-> "gauss_kl_diag", q_mu |-> m.q_mu, q_sqrt |-> m.q_sqrt, K |-> PriorK(m)]
       ELSE [fn |-> "gauss_kl", q_mu |-> m.q_mu, q_sqrt |-> m.q_sqrt, K |-> PriorK(m)]

\* SVGP.build_predict: the call of conditionals.conditional
ConditionalCall(m, rows, full_cov) ==
  [Xnew_rows |-> rows, full_cov |-> full_cov, whiten |-> m.whiten]

\* tf.reduce_sum of a sequence of numbers
RECURSIVE ReduceSum(_)
ReduceSum(s) == IF s = <<>> THEN 0 ELSE Head(s) + ReduceSum(Tail(s))

\* a / b of two casts to float
Quotient(a, b) == [num |-> a, den |-> b]

\* a faulty variant of Elbo: the KL term is rescaled with the expectations
ElboScaledKL(var_exp, scale, KL) ==
  [num |-> (ReduceSum(var_exp) - KL) * scale.num, den |-> scale.den]

\* tf.reduce_sum(var_exp) * scale - KL
Elbo(var_exp, scale, KL) ==
  [num |-> ReduceSum(var_exp) * scale.num - KL * scale.den, den |-> scale.den]

\* the values a likelihood may give for one observation
VarExpValues == {-1, 2}

\* the values the KL functions may give
KLValues == {0, 3}

\* sequences of length n over S
SeqsOfLen(S, n) == [1..n -> S]

\* SVGP.build_likelihood()
BuildLikelihood(var_exp, KL) ==
  /\ svgp.built
  /\ Len(var_exp) = svgp.X.batch
  /\ LET scale == Quotient(svgp.num_data, svgp.X.batch) IN
     out' = [op |-> "build_likelihood",
             kl_call |-> PriorKLCall(svgp),
             KL |-> KL,
             conditional |-> ConditionalCall(svgp, svgp.X.batch, FALSE),
             var_exp |-> var_exp,
             scale |-> scale,
             result |-> Elbo(var_exp, scale, KL)]
  /\ UNCHANGED <<svgp, nodes, index, handed, last>>

\* a faulty variant of SingleLatent: any positive number of latents is accepted
SingleLatentOrMore(m) == m.num_latent >= 1

\* SVGP.linear_weights_posterior: assert self.num_latent == 1
SingleLatent(m) == m.num_latent = 1

\* SVGP.linear_weights_posterior(); chol_ok tells whether the Cholesky
\* factorisations of the two jittered matrices succeed
LinearWeightsPosterior(chol_ok) ==
  /\ svgp.built
  /\ out' =
       IF ~SingleLatent(svgp)
       THEN [op |-> "linear_weights_posterior", raised |-> "AssertionError",
             steps |-> <<"assert">>, flag |-> FALSE]
       ELSE IF ~svgp.kern.has_feature_map
       THEN [op |-> "linear_weights_posterior", raised |-> "NotImplementedError",
             steps |-> <<"assert", "create_feature_map_func">>, flag |-> FALSE]
       ELSE IF ~chol_ok
       THEN [op |-> "linear_weights_posterior", raised |-> "InvalidArgumentError",
             steps |-> <<"assert", "create_feature_map_func", "feat_map", "cholesky">>,
             flag |-> FALSE]
       ELSE [op |-> "linear_weights_posterior", raised |-> "",
             steps |-> <<"assert", "create_feature_map_func", "feat_map", "cholesky",
                         "cholesky", "cholesky_solve", "return">>,
             flag |-> TRUE]
  /\ UNCHANGED <<svgp, nodes, index, handed, last>>

Init ==
  /\ nodes = [n \in NodeIds |-> Absent]
  /\ index = 0
  /\ handed = <<>>
  /\ last = NoCall
  /\ svgp = NoModel
  /\ out = NoOut

\* creations, set_name and _reset_name calls, in any order
NextNames ==
  \/ \E n \in NodeIds, cls \in ClassNames, nm \in NameArgs : New(n, cls, nm)
  \/ \E n \in NodeIds, nm \in NameArgs : SetName(n, nm)
  \/ \E n \in NodeIds : ResetName(n)

SpecNames == Init /\ [][NextNames]_vars

\* creations and set_parent calls, in any order
NextLinks ==
  \/ \E n \in NodeIds, cls \in ClassNames, nm \in {None, <<"f">>} : New(n, cls, nm)
  \/ \E n \in NodeIds, p \in NodeIds \cup {NoParent} : SetParent(n, p)

SpecLinks == Init /\ [][NextLinks]_vars
Shapes(rows) == {<<r, c>> : r \in rows, c \in 1..MaxCols}

\* One model object is followed from its construction on.  The two methods
\* change nothing of the object, so that a call made after another call ends
\* in a state that a first call ends in: the calls followed are the first.
NextSVGP ==
  \/ /\ ~svgp.built
     /\ \E Xshape \in Shapes(1..MaxRows), Yshape \in Shapes(1..MaxRows),
           Zshape \in Shapes(0..MaxRows), kern \in Kernels,
           num_latent \in Opt(0..MaxLatent), q_diag \in BOOLEAN, whiten \in BOOLEAN,
           minibatch_size \in Opt(1..MaxRows) :
          /\ Xshape[1] = Yshape[1]
          /\ Construct(Xshape, Yshape, kern, Zshape, num_latent, q_diag, whiten,
                       minibatch_size)
  \/ /\ out.op = "__init__"
     /\ \E KL \in KLValues : \E var_exp \in SeqsOfLen(VarExpValues, svgp.X.batch) :
          BuildLikelihood(var_exp, KL)
  \/ /\ out.op = "__init__"
     /\ \E chol_ok \in BOOLEAN : LinearWeightsPosterior(chol_ok)

SpecSVGP == Init /\ [][NextSVGP]_vars
(***************************************************************************)
(* The naming tree: claims                                                 *)
(***************************************************************************)
ExistingNodes == {n \in NodeIds : Exists(n)}

\* the name _define_name gives a node of class cls from the index i
IndexedName(i, cls) == FormatInt(i) \o <<"/">> \o cls

\* the indices i for which node n carries the name made from i and its class
IndicesOf(n) == {i \in 0..MaxIndex : nodes[n]._name = IndexedName(i, nodes[n].cls)}

\* C1: the numeric prefixes handed out, in the order of the reads of the
\* counter shared by all classes, are strictly increasing, so that none is
\* given out twice; each read raises the counter by exactly one; and no two
\* nodes carry the same handed-out prefix.
C1_PrefixesStrictlyIncrease ==
  /\ \A i, j \in 1..Len(handed) : i < j => handed[i] < handed[j]
  /\ index = Len(handed)
  /\ \A i \in 1..Len(handed) : handed[i] < index
  /\ \A n, m \in ExistingNodes : n # m => IndicesOf(n) \cap IndicesOf(m) = {}
  /\ \A n \in ExistingNodes : \A i \in IndicesOf(n) : \E k \in 1..Len(handed) : handed[k] = i

\* three prefixes were handed out, to nodes of both classes
C1_Witness ==
  /\ Len(handed) >= 3
  /\ \E n, m \in ExistingNodes :
       /\ nodes[n].cls = <<"A">> /\ IndicesOf(n) # {}
       /\ nodes[m].cls = <<"B">> /\ IndicesOf(m) # {}

\* what Parentable.full_name gives for a child, from what it gives for the
\* parent: a recursion that does not end for the parent does not end for
\* the child
JoinedUnder(up, nm) == IF up = RecursionError THEN RecursionError ELSE up \o <<"/">> \o nm

Prefixed(s) == s # NameOf(s)

C9_NoCycle ==
  \A n \in ExistingNodes :
    /\ root(n) # {}
    /\ full_name(n) # RecursionError
    /\ hidden_full_name(n) # RecursionError
    /\ \A r \in root(n) : parent(r) = r

\* C10 as claimed: after a construction or a set_name with a non-empty
\* explicit name, name and hidden_name both give that name and the counter
\* is as it was.
C10_ExplicitNameKept ==
  (last.op \in {"__init__", "set_name"} /\ Truthy(last.arg)) =>
    /\ name(last.node) = last.arg
    /\ hidden_name(last.node) = last.arg
    /\ index = last.index0

(***************************************************************************)
(* SVGP: claims                                                            *)
(***************************************************************************)
\* C3 as claimed: no model object exists whose Z has no rows or whose X and Z
\* differ in their number of columns.
C3_BadShapesRejected ==
  svgp.built => svgp.Z.shape[1] # 0 /\ svgp.X.shape[2] = svgp.Z.shape[2]

\* C4: linear_weights_posterior ends in an error whenever num_latent is not
\* 1, having done nothing but the check; with a single latent and a kernel
\* without a feature map it ends in NotImplementedError; and whenever it
\* returns, the flag returned is true.
C4_LinearWeightsErrors ==
  out.op = "linear_weights_posterior" =>
    /\ svgp.num_latent # 1 =>
         out.raised = "AssertionError" /\ out.steps = <<"assert">>
    /\ (svgp.num_latent = 1 /\ ~svgp.kern.has_feature_map) =>
         out.raised = "NotImplementedError"
    /\ ~svgp.kern.has_feature_map => out.raised # ""
    /\ out.raised = "" => out.flag = TRUE
    /\ out.raised # "" => out.steps[Len(out.steps)] # "return"

\* each of the three ways out was taken: two latents and no feature map, one
\* latent and no feature map, and a return
C4_Witness ==
  /\ out.op = "linear_weights_posterior"
  /\ out.raised = "AssertionError"
  /\ svgp.num_latent = 2
  /\ ~svgp.kern.has_feature_map

\* C5: the bound is the sum of the expectations times num_data over the rows
\* of the batch, less the KL term once: result + KL = sum * num_data / rows.
\* The scale is 1 when minibatch_size is num_data, given or by default, and
\* num_data is the number of rows of X whatever the minibatch_size.
C5_RescaledBound ==
  /\ svgp.built => svgp.num_data = svgp.X.shape[1]
  /\ out.op = "build_likelihood" =>
       /\ out.scale.num * svgp.X.batch = svgp.num_data * out.scale.den
       /\ svgp.X.batch = svgp.num_data => out.scale.num = out.scale.den
       /\ svgp.given.minibatch_size \in {{}, {svgp.X.shape[1]}} =>
            out.scale.num = out.scale.den
       /\ (out.result.num + out.KL * out.result.den) * svgp.X.batch
            = ReduceSum(out.var_exp) * svgp.X.shape[1] * out.result.den
       /\ out.result.den > 0

\* a batch of one row out of two, with a KL term that is not zero
C5_Witness ==
  /\ out.op = "build_likelihood"
  /\ svgp.num_data = 2 /\ svgp.X.batch = 1
  /\ out.KL = 3 /\ out.var_exp = <<2>>
  /\ out.result = [num |-> 1, den |-> 1]

\* C6 as claimed: num_inducing is the number of rows of Z; with L the
\* num_latent given, or the columns of Y when none is given, q_mu is M x L of
\* zeros and q_sqrt is M x L of ones when q_diag, and otherwise L identity
\* matrices of M x M.
GivenLatent(m) ==
  IF m.given.num_latent = {} THEN m.Y.shape[2] ELSE TheValue(m.given.num_latent)

InitialisedFor(m, M, L) ==
  /\ m.num_inducing = M
  /\ m.q_mu.shape = <<M, L>>
  /\ \A i \in 1..M, l \in 1..L : m.q_mu.at[<<i, l>>] = 0
  /\ IF m.q_diag
     THEN /\ m.q_sqrt.shape = <<M, L>>
          /\ \A i \in 1..M, l \in 1..L : m.q_sqrt.at[<<i, l>>] = 1
     ELSE /\ m.q_sqrt.shape = <<M, M, L>>
          /\ \A i \in 1..M, j \in 1..M, l \in 1..L :
               m.q_sqrt.at[<<i, j, l>>] = (IF i = j THEN 1 ELSE 0)

C6_InitialisedAsGiven ==
  svgp.built =>
    InitialisedFor(svgp, svgp.Z.shape[1], GivenLatent(svgp))

\* C6 as the code has it: the same, with L the num_latent given when one is
\* given and is not 0, and the columns of Y otherwise.
C6_Initialised ==
  svgp.built =>
    InitialisedFor(svgp, svgp.Z.shape[1],
                   IF svgp.given.num_latent \in {{}, {0}} THEN svgp.Y.shape[2]
                   ELSE TheValue(svgp.given.num_latent))

\* two inducing points and two latents, the covariance not diagonal
C6_Witness ==
  /\ svgp.built /\ out.op = "__init__"
  /\ ~svgp.q_diag
  /\ svgp.Z.shape[1] = 2
  /\ svgp.given.num_latent = {2} /\ svgp.Y.shape[2] = 1
  /\ svgp.q_sqrt.at[<<2, 2, 2>>] = 1 /\ svgp.q_sqrt.at[<<1, 2, 2>>] = 0

\* C7: build_likelihood calls the one KL function that the pair (whiten,
\* q_diag) names; the whitened two are given no K; the other two are given
\* the kernel's matrix with the jitter added on its diagonal; and the
\* conditional is called with the same whiten.
C7_KLVariant ==
  out.op = "build_likelihood" =>
    LET c == out.kl_call
        M == svgp.num_inducing
    IN /\ c.fn = (CASE svgp.whiten /\ svgp.q_diag -> "gauss_kl_white_diag"
                    [] svgp.whiten /\ ~svgp.q_diag -> "gauss_kl_white"
                    [] ~svgp.whiten /\ svgp.q_diag -> "gauss_kl_diag"
                    [] ~svgp.whiten /\ ~svgp.q_diag -> "gauss_kl")
       /\ (c.fn \in {"gauss_kl_white_diag", "gauss_kl_white"}) = (c.K = NoK)
       /\ (c.fn \in {"gauss_kl_diag", "gauss_kl"}) =>
            /\ c.K.shape = <<M, M>>
            /\ \A i \in 1..M, j \in 1..M :
                 c.K.at[<<i, j>>] - KernK(svgp.kern, M).at[<<i, j>>]
                   = (IF i = j THEN jitter_level ELSE 0)
       /\ out.conditional.whiten = svgp.whiten
       /\ (out.conditional.whiten = TRUE) = (c.fn \in {"gauss_kl_white_diag", "gauss_kl_white"})

\* the KL of a model that is not whitened, with two inducing points and the
\* constant kernel, whose matrix the jitter alone makes positive definite
C7_Witness ==
  /\ out.op = "build_likelihood"
  /\ ~svgp.whiten /\ svgp.q_diag
  /\ svgp.num_inducing = 2 /\ svgp.kern.kind = "constant"
  /\ out.kl_call.fn = "gauss_kl_diag"
  /\ out.kl_call.K.at[<<1, 1>>] = KernelVariance + jitter_level
  /\ out.kl_call.K.at[<<1, 2>>] = KernelVariance
====
